---- MODULE Spec2Model ----
(***************************************************************************)
(* raw-downloader (src/main.rs): for every (remote_url, local_path) pair   *)
(* read from stdin, fetch the URL, compare the body with the local file by *)
(* SHA-256 digest, rewrite the file when they differ, and print one line   *)
(* per pair once all pairs have been processed.                            *)
(*                                                                         *)
(* The process() futures are driven by join_all inside the single main     *)
(* task, so they interleave only at their .await points: every action of a *)
(* task below is one .await together with the synchronous code up to the   *)
(* next .await. What main does after join_all has resolved has no .await   *)
(* and is one action.                                                      *)
(***************************************************************************)
EXTENDS Integers, Sequences, FiniteSets, TLC

\* ---------------------------------------------------------------- bounds
MaxTasks == 2        \* longest descriptor list
MaxLen == 1          \* longest file / response body, in bytes
MaxFaults == 1       \* injected network / filesystem failures per run
MaxRuns == 2         \* times the program is run on the same input
MaxBuf == 3          \* longest buffer handed to hash_eq on its own
MaxLines == 5        \* longest input stream, in lines

\* ------------------------------------------------------------ data model
\* The byte values a buffer may hold, and those the files and responses of
\* a run hold: these are told apart by their length.
Octet == {1, 2}
Byte == {1}
Contents == UNION {[1..n -> Byte] : n \in 0..MaxLen}

\* A path is a sequence of components; "~" and "$NAME" are shorthand that
\* shellexpand::full rewrites.
HomeDir == <<"home">>
Env == ("$HOME" :> HomeDir)
VarTokens == {"$HOME", "$U"}
PathStrings == {<<"f">>, <<"~", "g">>, <<"$U", "h">>}
Urls == {"u"}
\* The order the path strings are listed in when several are given.
PathOrder == <<<<"f">>, <<"~", "g">>, <<"$U", "h">>>>

\* shellexpand::full(&dt.local_path): a leading "~" becomes the home
\* directory, a leading $NAME its value; an undefined variable is an error.
full(p) ==
    IF Head(p) = "~" THEN [ok |-> TRUE, path |-> HomeDir \o Tail(p)]
    ELSE IF Head(p) \in VarTokens
         THEN IF Head(p) \in DOMAIN Env
              THEN [ok |-> TRUE, path |-> Env[Head(p)] \o Tail(p)]
              ELSE [ok |-> FALSE, path |-> p]
    ELSE [ok |-> TRUE, path |-> p]

\* The file a path string names when it is opened as it stands: a leading
\* "." is the working directory, which relative paths start from anyway.
FileOf(p) == IF p # <<>> /\ Head(p) = "." THEN Tail(p) ELSE p

\* Every file the program can name: the strings as given (File::open gets
\* dt.local_path) and as expanded (OpenOptions::open / File::create get
\* local_path).
FsPaths == {p \in PathStrings : full(p).ok} \cup {full(p).path : p \in {q \in PathStrings : full(q).ok}}

Absent == [exists |-> FALSE, data |-> <<>>]
Present(d) == [exists |-> TRUE, data |-> d]
FileStates == {Absent} \cup {Present(d) : d \in Contents}

DownloadTask == [remote_url : Urls, local_path : PathStrings]

\* reqwest::StatusCode values the server may answer with.
StatusCodes == {200, 300, 404}
\* faulty variant: 300 counted as a success
is_success_through_300(c) == c >= 200 /\ c <= 300
is_success(c) == c >= 200 /\ c < 300

\* Result<State, Error>; Pending is a future that has not returned yet.
Pending == [tag |-> "Pending", state |-> "-", status |-> 0]
Ok(s) == [tag |-> "Ok", state |-> s, status |-> 0]
RequestError == [tag |-> "RequestError", state |-> "-", status |-> 0]
WithStatusError(c) == [tag |-> "WithStatusError", state |-> "-", status |-> c]
FileError == [tag |-> "FileError", state |-> "-", status |-> 0]

\* ------------------------------------------------------------ comparator
\* Sha256 as an injective encoding of what the hasher was fed (the digest
\* non-collision assumption).
RECURSIVE Digest(_)
Digest(buf) ==
    IF buf = <<>> THEN 1
    ELSE (Cardinality(Octet) + 1) * Digest(SubSeq(buf, 1, Len(buf) - 1)) + buf[Len(buf)]

\* hasher.input(buf): the hasher is an accumulator of the bytes fed to it.
input(hasher, buf) == hasher \o buf

\* faulty variant: the digest is read and the hasher keeps what it was fed
result_no_reset(hasher) == [hash |-> Digest(hasher), hasher |-> hasher]

\* hasher.result_reset(): the digest of what was fed, and a fresh hasher.
result_reset(hasher) == [hash |-> Digest(hasher), hasher |-> <<>>]

\* faulty variant: a comparison that never finds two buffers equal
hash_never_eq(buf1, buf2) == FALSE

\* lines 34-43
hash_eq(buf1, buf2) ==
    LET hasher0 == <<>>
        hasher1 == input(hasher0, buf1)
        first == result_reset(hasher1)
        buf1_hash == first.hash
        hasher2 == input(first.hasher, buf2)
        buf2_hash == result_reset(hasher2).hash
    IN  buf1_hash = buf2_hash

\* ----------------------------------------------------------------- state
VARIABLES
    files,          \* Vec<DownloadTask> built from stdin
    fs,             \* the local filesystem: FsPaths -> FileStates
    pc,             \* pc[i]: the .await process(files[i]) is suspended at
    bytes_remote,   \* process() locals, per task
    bytes_local,
    state,
    local_path,
    file,           \* the path the task's open read handle refers to
    result,         \* join_all's slot i: Pending, or the value returned
    results,        \* the Vec join_all resolves to
    out,            \* the lines printed so far
    mainpc,         \* "join", "report", "exit" or "panicked"
    faults,         \* failures injected so far
    response,       \* history: response[i], the status task i's request was
                    \* answered with, 0 if none
    completed,      \* history: task indices in the order they returned
    fs0,            \* history: the filesystem when the run started
    ops,            \* history: ops[i], the calls task i has awaited, in order
    pending,        \* pending[i]: the write task i's File handed to the
                    \* blocking pool and that has not run yet
    run,            \* history: which run of the program this is
    prev,           \* history: result and bytes_remote of the previous run
    cmp,            \* a call of hash_eq on its own: arguments and return value
    stdin           \* the lines of standard input and the first one not yet read

vars == <<files, fs, pc, bytes_remote, bytes_local, state, local_path, file,
          result, results, out, mainpc, faults, response, completed, fs0,
          ops, pending, run, prev, cmp, stdin>>

\* what no action of a run changes
hist == <<files, fs0, run, prev, cmp, stdin>>

Tasks == 1..Len(files)

\* Sequences of descriptors of length 0..MaxTasks.
FileLists == UNION {[1..n -> DownloadTask] : n \in 0..MaxTasks}

NoPrev == [result |-> Pending, bytes |-> <<>>]

\* No call of hash_eq on its own.
NoCall == [buf1 |-> <<>>, buf2 |-> <<>>, called |-> FALSE, ret |-> FALSE]

\* Standard input has been read (lines 106-121 are over).
NoInput == [lines |-> <<>>, pos |-> 1]

\* No write in flight.
NoWrite == [path |-> <<>>, at |-> 0, data |-> <<>>]

Start(fl, f) ==
    /\ files = fl
    /\ fs = f
    /\ fs0 = f
    /\ run = 1
    /\ prev = [i \in 1..Len(fl) |-> NoPrev]
    /\ response = [i \in 1..Len(fl) |-> 0]
    /\ completed = <<>>
    /\ pc = [i \in 1..Len(fl) |-> "get"]
    /\ bytes_remote = [i \in 1..Len(fl) |-> <<>>]
    /\ bytes_local = [i \in 1..Len(fl) |-> <<>>]
    /\ state = [i \in 1..Len(fl) |-> "-"]
    /\ local_path = [i \in 1..Len(fl) |-> <<>>]
    /\ file = [i \in 1..Len(fl) |-> <<>>]
    /\ result = [i \in 1..Len(fl) |-> Pending]
    /\ results = <<>>
    /\ out = <<>>
    /\ mainpc = "join"
    /\ faults = 0
    /\ ops = [i \in 1..Len(fl) |-> <<>>]
    /\ pending = [i \in 1..Len(fl) |-> NoWrite]
    /\ cmp = NoCall
    /\ stdin = NoInput

\* The place of path string p in PathOrder.
Rank(p) == CHOOSE k \in 1..Len(PathOrder) : PathOrder[k] = p

\* The files a descriptor with local_path p names: the one File::open
\* probes and the one OpenOptions::open / File::create act on.
Named(p) == IF full(p).ok THEN {FileOf(p), FileOf(full(p).path)} ELSE {}

\* The descriptors of a run: no two share a local_path (concurrent access to
\* one path is not a supported configuration) and they are listed in
\* PathOrder (process() treats every slot alike, so one listing of each set
\* of descriptors stands for its permutations).
Listed(fl) ==
    \A i, j \in 1..Len(fl) : i < j => Rank(fl[i].local_path) < Rank(fl[j].local_path)

\* The filesystem a run starts from: the files no descriptor names, which
\* the run cannot reach, do not exist.
Input(fl, f) ==
    \A p \in FsPaths :
        (\A i \in 1..Len(fl) : p \notin Named(fl[i].local_path)) => f[p] = Absent

Init == \E fl \in FileLists, f \in [FsPaths -> FileStates] :
            Listed(fl) /\ Input(fl, f) /\ Start(fl, f)

\* ----------------------------------------------------------- process(dt)
\* An operation of the environment (network, filesystem) fails.
Fault == faults < MaxFaults /\ faults' = faults + 1
NoFault == UNCHANGED faults

locals == <<bytes_remote, bytes_local, state, local_path, file>>

\* The future returns r: its slot in join_all becomes Done(r).
Return(i, r) ==
    /\ result' = [result EXCEPT ![i] = r]
    /\ pc' = [pc EXCEPT ![i] = "done"]
    /\ completed' = Append(completed, i)

\* The future returns Err(e) through a ?: its locals are dropped.
Throw(i, e) ==
    /\ Fault
    /\ Return(i, e)
    /\ bytes_remote' = [bytes_remote EXCEPT ![i] = <<>>]
    /\ bytes_local' = [bytes_local EXCEPT ![i] = <<>>]
    /\ state' = [state EXCEPT ![i] = "-"]
    /\ local_path' = [local_path EXCEPT ![i] = <<>>]
    /\ file' = [file EXCEPT ![i] = <<>>]

\* The future suspends at its next .await.
Goto(i, at) ==
    /\ pc' = [pc EXCEPT ![i] = at]
    /\ UNCHANGED <<result, completed>>

Running(i) == mainpc = "join" /\ i \in Tasks

\* reqwest::get(&dt.remote_url).await?  and the status check (lines 46-49)
Get(i) ==
    /\ Running(i) /\ pc[i] = "get"
    /\ ops' = [ops EXCEPT ![i] = Append(@, "get")]
    /\ \/ /\ Throw(i, RequestError)
          /\ UNCHANGED response
       \/ \E c \in StatusCodes :
            /\ response' = [response EXCEPT ![i] = c]
            /\ IF ~is_success(c)
               THEN Throw(i, WithStatusError(c))
               ELSE NoFault /\ Goto(i, "bytes") /\ UNCHANGED locals
    /\ UNCHANGED <<fs, results, out, mainpc, pending, hist>>

\* The process dies of a panic: its memory is gone, the filesystem stays.
Panic ==
    /\ mainpc' = "panicked"
    /\ pc' = [j \in Tasks |-> "panicked"]
    /\ bytes_remote' = [j \in Tasks |-> <<>>]
    /\ bytes_local' = [j \in Tasks |-> <<>>]
    /\ state' = [j \in Tasks |-> "-"]
    /\ local_path' = [j \in Tasks |-> <<>>]
    /\ file' = [j \in Tasks |-> <<>>]
    /\ result' = [j \in Tasks |-> Pending]
    /\ response' = [j \in Tasks |-> 0]
    /\ ops' = [j \in Tasks |-> <<>>]
    /\ completed' = <<>>
    /\ faults' = 0
    /\ UNCHANGED <<fs, results, out, pending, hist>>

\* response.bytes().await?, then state = Update and
\* shellexpand::full(..).unwrap() (lines 51-54); the unwrap panics on an
\* expansion error, and the panic unwinds through join_all and main.
Bytes(i) ==
    /\ Running(i) /\ pc[i] = "bytes"
    /\ \/ /\ Throw(i, RequestError)
          /\ ops' = [ops EXCEPT ![i] = Append(@, "bytes")]
          /\ UNCHANGED <<fs, results, out, mainpc, response, pending, hist>>
       \/ /\ full(files[i].local_path).ok
          /\ \E b \in Contents :
                bytes_remote' = [bytes_remote EXCEPT ![i] = b]
          /\ state' = [state EXCEPT ![i] = "Update"]
          /\ local_path' = [local_path EXCEPT ![i] = full(files[i].local_path).path]
          /\ Goto(i, "open")
          /\ ops' = [ops EXCEPT ![i] = Append(@, "bytes")]
          /\ NoFault
          /\ UNCHANGED <<bytes_local, file>>
          /\ UNCHANGED <<fs, results, out, mainpc, response, pending, hist>>
       \/ /\ ~full(files[i].local_path).ok
          /\ Panic

\* File::open(&dt.local_path).await and its match (lines 57-74): the path
\* opened is the descriptor's string, not the expanded local_path. The open
\* succeeds, fails with NotFound, or fails with another kind of error.
Open(i) ==
    /\ Running(i) /\ pc[i] = "open"
    /\ \/ /\ Throw(i, FileError)
          /\ ops' = [ops EXCEPT ![i] = Append(@, "open_error")]
       \/ /\ fs[FileOf(files[i].local_path)].exists
          /\ ops' = [ops EXCEPT ![i] = Append(@, "open")]
          /\ NoFault
          /\ file' = [file EXCEPT ![i] = FileOf(files[i].local_path)]
          /\ Goto(i, "read")
          /\ UNCHANGED <<bytes_remote, bytes_local, state, local_path>>
       \/ /\ ~fs[FileOf(files[i].local_path)].exists
          /\ ops' = [ops EXCEPT ![i] = Append(@, "open_notfound")]
          /\ NoFault
          /\ state' = [state EXCEPT ![i] = "New"]
          /\ Goto(i, "open_new")
          /\ UNCHANGED <<bytes_remote, bytes_local, local_path, file>>
    /\ UNCHANGED <<fs, results, out, mainpc, response, pending, hist>>

\* faulty variant: the open also truncates, as with .truncate(true)
create_truncating(f) == Present(<<>>)

\* What .create(true) without .truncate(true) does to the file opened.
create_if_absent(f) == IF f.exists THEN f ELSE Present(<<>>)

\* OpenOptions::new().read(true).write(true).create(true)
\*     .open(&local_path).await?   (lines 64-69)
OpenNew(i) ==
    /\ Running(i) /\ pc[i] = "open_new"
    /\ ops' = [ops EXCEPT ![i] = Append(@, "open_create")]
    /\ \/ /\ Throw(i, FileError)
          /\ UNCHANGED fs
       \/ /\ NoFault
          /\ fs' = [fs EXCEPT ![FileOf(local_path[i])] = create_if_absent(@)]
          /\ file' = [file EXCEPT ![i] = FileOf(local_path[i])]
          /\ Goto(i, "read")
          /\ UNCHANGED <<bytes_remote, bytes_local, state, local_path>>
    /\ UNCHANGED <<results, out, mainpc, response, pending, hist>>

\* file.read_to_end(&mut bytes_local).await?, then the comparison
\* (lines 75-80, 83-86)
Read(i) ==
    /\ Running(i) /\ pc[i] = "read"
    /\ ops' = [ops EXCEPT ![i] = Append(@, "read")]
    /\ \/ Throw(i, FileError)
       \/ /\ NoFault
          /\ bytes_local' = [bytes_local EXCEPT ![i] = fs[file[i]].data]
          /\ IF ~hash_eq(fs[file[i]].data, bytes_remote[i])
             THEN /\ state' = [state EXCEPT ![i] =
                                  IF @ # "New" THEN "Update" ELSE @]
                  /\ Goto(i, "create")
             ELSE /\ state' = [state EXCEPT ![i] = "Same"]
                  /\ Return(i, Ok("Same"))
          /\ UNCHANGED <<bytes_remote, local_path, file>>
    /\ UNCHANGED <<fs, results, out, mainpc, response, pending, hist>>

\* File::create(&local_path).await?   (line 81): create or truncate
Create(i) ==
    /\ Running(i) /\ pc[i] = "create"
    /\ ops' = [ops EXCEPT ![i] = Append(@, "create")]
    /\ \/ /\ Throw(i, FileError)
          /\ UNCHANGED fs
       \/ /\ NoFault
          /\ fs' = [fs EXCEPT ![FileOf(local_path[i])] = Present(<<>>)]
          /\ Goto(i, "write")
          /\ UNCHANGED locals
    /\ UNCHANGED <<results, out, mainpc, response, pending, hist>>

\* What a file holds after new is written at offset 0 of a handle.
Overlay(old, new) ==
    IF Len(new) >= Len(old) THEN new
    ELSE new \o SubSeq(old, Len(new) + 1, Len(old))

\* What a file holds after new is written at offset at of a handle.
WriteAt(old, at, new) ==
    SubSeq(old, 1, at) \o Overlay(SubSeq(old, at + 1, Len(old)), new)

\* The bytes one poll_write of tokio's File copies into its buffer (16 KiB
\* in tokio), in the unit the model's buffers are measured in.
MAX_BUF == 1

\* Where the last chunk that write_all hands over starts.
LastStart(b) == IF b = <<>> THEN 0 ELSE MAX_BUF * ((Len(b) - 1) \div MAX_BUF)

\* file.write_all(&bytes_remote).await?  and Ok(state)   (lines 82, 86).
\* tokio's File copies each chunk into its buffer, starts a blocking write
\* and reports Ok at once; the result of that write is seen by the next
\* poll_write only. A failure in any chunk but the last ends write_all with
\* the error, a proper prefix written; the last chunk is still in flight
\* when write_all returns Ok, and the handle is dropped without a flush.
Write(i) ==
    /\ Running(i) /\ pc[i] = "write"
    /\ ops' = [ops EXCEPT ![i] = Append(@, "write")]
    /\ LET b == bytes_remote[i]
           k == LastStart(b)
       IN  \/ /\ \E n \in 0..(k - 1) :
                    fs' = [fs EXCEPT ![FileOf(local_path[i])] =
                              Present(Overlay(@.data, SubSeq(b, 1, n)))]
              /\ Throw(i, FileError)
              /\ UNCHANGED pending
           \/ /\ NoFault
              /\ fs' = [fs EXCEPT ![FileOf(local_path[i])] =
                            Present(Overlay(@.data, SubSeq(b, 1, k)))]
              /\ pending' = [pending EXCEPT ![i] =
                    IF b = <<>> THEN NoWrite
                    ELSE [path |-> FileOf(local_path[i]), at |-> k,
                          data |-> SubSeq(b, k + 1, Len(b))]]
              /\ Return(i, Ok(state[i]))
              /\ UNCHANGED locals
    /\ UNCHANGED <<results, out, mainpc, response, hist>>

\* The blocking pool runs the write that was handed over. Nobody holds the
\* handle any more: if the write fails, having written a proper prefix, the
\* error is dropped with it.
BlockingWrite(i) ==
    /\ i \in Tasks /\ pending[i] # NoWrite
    /\ LET w == pending[i]
       IN  \/ /\ NoFault
              /\ fs' = [fs EXCEPT ![w.path] = Present(WriteAt(@.data, w.at, w.data))]
           \/ /\ Fault
              /\ \E n \in 0..(Len(w.data) - 1) :
                    fs' = [fs EXCEPT ![w.path] =
                              Present(WriteAt(@.data, w.at, SubSeq(w.data, 1, n)))]
    /\ pending' = [pending EXCEPT ![i] = NoWrite]
    /\ UNCHANGED <<pc, bytes_remote, bytes_local, state, local_path, file,
                   result, results, out, mainpc, response, completed, ops, hist>>

\* ------------------------------------------------------------------ main
\* faulty variant: resolve as soon as one future has returned, as a select would
any_done == \E i \in Tasks : pc[i] = "done"

\* faulty variant: resolve on the first Err as well, as try_join_all would
all_done_or_failed ==
    \/ \A i \in Tasks : pc[i] = "done"
    \/ \E i \in Tasks : pc[i] = "done" /\ result[i].tag # "Ok"

\* join_all(processes).await (line 125) resolves once every slot is Done ...
all_done == \A i \in Tasks : pc[i] = "done"

\* faulty variant: the outputs in the order the futures returned
CollectAsCompleted(slots, order) ==
    [i \in DOMAIN slots |-> IF i \in DOMAIN order THEN slots[order[i]] ELSE slots[i]]

\* ... to the outputs in slot order.
Collect(slots, order) == [i \in DOMAIN slots |-> slots[i]]

JoinAll ==
    /\ mainpc = "join"
    /\ all_done
    /\ results' = Collect(result, completed)
    /\ mainpc' = "report"
    /\ UNCHANGED <<fs, pc, bytes_remote, bytes_local, state, local_path, file,
                   result, out, faults, response, completed, ops, pending, hist>>

TokLen(t) == CASE t = "home" -> 4 [] t = "$U" -> 2 [] t = "$HOME" -> 5 [] OTHER -> 1

RECURSIVE StrLen(_)
\* f.local_path.len(): the components and the separators between them
StrLen(p) ==
    IF p = <<>> THEN 0
    ELSE IF Len(p) = 1 THEN TokLen(p[1])
    ELSE TokLen(Head(p)) + 1 + StrLen(Tail(p))

MaxOf(S) == IF S = {} THEN 0 ELSE CHOOSE y \in S : \A z \in S : z <= y

\* line 127
width == MaxOf({StrLen(files[i].local_path) : i \in Tasks}) + 2

as_str(c) == CASE c = 300 -> "300" [] c = 404 -> "404" [] OTHER -> "200"

to_string(r) ==
    CASE r.tag = "RequestError" -> "Can't get data from url"
      [] r.tag = "WithStatusError" -> "Status"
      [] OTHER -> "Can't open file"

\* the match of lines 129-154
Line(r, f) ==
    CASE r.tag = "Ok" /\ r.state = "Same" ->
            [path |-> f.local_path, width |-> width, colour |-> "plain", detail |-> ""]
      [] r.tag = "Ok" /\ r.state = "Update" ->
            [path |-> f.local_path, width |-> width, colour |-> "blue", detail |-> ""]
      [] r.tag = "Ok" /\ r.state = "New" ->
            [path |-> f.local_path, width |-> width, colour |-> "green", detail |-> ""]
      [] r.tag = "WithStatusError" ->
            [path |-> f.local_path, width |-> width, colour |-> "red", detail |-> as_str(r.status)]
      [] OTHER ->
            [path |-> f.local_path, width |-> width, colour |-> "red", detail |-> to_string(r)]

RECURSIVE Lines(_, _, _)
\* the lines the loop over results.iter().zip(files) prints (lines 128-156)
Lines(rs, fl, k) ==
    IF k > Len(rs) \/ k > Len(fl) THEN <<>>
    ELSE <<Line(rs[k], fl[k])>> \o Lines(rs, fl, k + 1)

\* the rest of main, which has no .await: the report loop, then Ok(())
\* (lines 127-157)
Report ==
    /\ mainpc = "report"
    /\ out' = Lines(results, files, 1)
    /\ mainpc' = "exit"
    /\ UNCHANGED <<fs, pc, bytes_remote, bytes_local, state, local_path, file,
                   result, results, faults, response, completed, ops, pending, hist>>

\* The program is started again on the same input once it has ended.
Rerun ==
    /\ mainpc \in {"exit", "panicked"}
    /\ \A i \in Tasks : pending[i] = NoWrite
    /\ run < MaxRuns
    /\ run' = run + 1
    /\ prev' = [i \in Tasks |-> [result |-> result[i], bytes |-> bytes_remote[i]]]
    /\ fs0' = fs
    /\ response' = [i \in Tasks |-> 0]
    /\ completed' = <<>>
    /\ pc' = [i \in Tasks |-> "get"]
    /\ bytes_remote' = [i \in Tasks |-> <<>>]
    /\ bytes_local' = [i \in Tasks |-> <<>>]
    /\ state' = [i \in Tasks |-> "-"]
    /\ local_path' = [i \in Tasks |-> <<>>]
    /\ file' = [i \in Tasks |-> <<>>]
    /\ result' = [i \in Tasks |-> Pending]
    /\ results' = <<>>
    /\ out' = <<>>
    /\ mainpc' = "join"
    /\ faults' = 0
    /\ ops' = [i \in Tasks |-> <<>>]
    /\ UNCHANGED <<files, fs, pending, cmp, stdin>>

Step ==
    \/ \E i \in Tasks : Get(i)
    \/ \E i \in Tasks : Bytes(i)
    \/ \E i \in Tasks : Open(i)
    \/ \E i \in Tasks : OpenNew(i)
    \/ \E i \in Tasks : Read(i)
    \/ \E i \in Tasks : Create(i)
    \/ \E i \in Tasks : Write(i)
    \/ \E i \in Tasks : BlockingWrite(i)
    \/ JoinAll
    \/ Report

Next == Step

\* One run of the program on any input and filesystem.
Spec == Init /\ [][Next]_vars

\* One run in which the runtime keeps polling whatever can make progress and
\* every network and filesystem operation returns in the end.
FairSpec == Init /\ [][Next]_vars /\ WF_vars(Next)

NextRerun == Step \/ Rerun

\* Runs of the program in succession on one descriptor.
InitOne == \E fl \in FileLists, f \in [FsPaths -> FileStates] :
              Len(fl) = 1 /\ Input(fl, f) /\ Start(fl, f)

SpecRerun == InitOne /\ [][NextRerun]_vars

\* Two descriptors with different destinations, the second one's being the
\* file that the first one's string names before it is expanded.
SharedFiles ==
    <<[remote_url |-> "u", local_path |-> <<"~", "g">>],
      [remote_url |-> "u", local_path |-> <<".", "~", "g">>]>>

InitShared == \E f \in [FsPaths -> FileStates] :
                  Input(SharedFiles, f) /\ Start(SharedFiles, f)

\* One run of the program on these two descriptors.
SpecShared == InitShared /\ [][Next]_vars

\* ------------------------------------------------------ hash_eq on its own
Buffers == UNION {[1..n -> Octet] : n \in 0..MaxBuf}

\* No program is running: hash_eq is about to be called on two buffers.
InitHash ==
    /\ \E a, b \in Buffers :
          cmp = [buf1 |-> a, buf2 |-> b, called |-> FALSE, ret |-> FALSE]
    /\ files = <<>> /\ fs = [p \in FsPaths |-> Absent] /\ fs0 = fs
    /\ run = 1 /\ prev = <<>> /\ response = <<>> /\ completed = <<>>
    /\ pc = <<>> /\ bytes_remote = <<>> /\ bytes_local = <<>> /\ state = <<>>
    /\ local_path = <<>> /\ file = <<>> /\ result = <<>> /\ results = <<>>
    /\ out = <<>> /\ mainpc = "hash_eq" /\ faults = 0 /\ ops = <<>>
    /\ pending = <<>> /\ stdin = NoInput

\* The call returns.
CallHashEq ==
    /\ mainpc = "hash_eq" /\ ~cmp.called
    /\ cmp' = [cmp EXCEPT !.called = TRUE, !.ret = hash_eq(cmp.buf1, cmp.buf2)]
    /\ UNCHANGED <<files, fs, pc, bytes_remote, bytes_local, state, local_path,
                   file, result, results, out, mainpc, faults, response,
                   completed, fs0, ops, pending, run, prev, stdin>>

NextHash == CallHashEq

SpecHash == InitHash /\ [][NextHash]_vars

\* ------------------------------------------- main: reading the descriptors
\* The lines stdin may hold: blank, or one of two texts.
LineTexts == {"", "u", "p"}
Streams == UNION {[1..n -> LineTexts] : n \in 0..MaxLines}

\* main starts: files is empty (line 106) and nothing has been read.
InitParse ==
    /\ \E ls \in Streams : stdin = [lines |-> ls, pos |-> 1]
    /\ files = <<>> /\ mainpc = "parse"
    /\ fs = [p \in FsPaths |-> Absent] /\ fs0 = fs
    /\ run = 1 /\ prev = <<>> /\ response = <<>> /\ completed = <<>>
    /\ pc = <<>> /\ bytes_remote = <<>> /\ bytes_local = <<>> /\ state = <<>>
    /\ local_path = <<>> /\ file = <<>> /\ result = <<>> /\ results = <<>>
    /\ out = <<>> /\ faults = 0 /\ ops = <<>> /\ pending = <<>>
    /\ cmp = NoCall

\* group_by(|el| *el != "") (line 113): the key of a line, and the last line
\* of the run of equal keys that starts at line k.
not_empty(ls, k) == ls[k] # ""
GroupEnd(ls, k) ==
    CHOOSE e \in k..Len(ls) :
        /\ \A j \in k..e : not_empty(ls, j) = not_empty(ls, k)
        /\ e = Len(ls) \/ not_empty(ls, e + 1) # not_empty(ls, k)

\* One iteration of the for loop (lines 109-121): the next group is taken,
\* line.next().unwrap() is called on it twice whatever its key, and a
\* descriptor is pushed if the key is true. The second unwrap panics on a
\* group of one line; lines after the second are left unread.
NextGroup ==
    /\ mainpc = "parse" /\ stdin.pos <= Len(stdin.lines)
    /\ LET ls == stdin.lines
           k == stdin.pos
           e == GroupEnd(ls, k)
       IN  IF e - k + 1 < 2
           THEN mainpc' = "panicked" /\ UNCHANGED <<files, stdin>>
           ELSE /\ files' = IF not_empty(ls, k)
                            THEN Append(files, [remote_url |-> ls[k],
                                                local_path |-> ls[k + 1]])
                            ELSE files
                /\ stdin' = [stdin EXCEPT !.pos = e + 1]
                /\ UNCHANGED mainpc
    /\ UNCHANGED <<fs, pc, bytes_remote, bytes_local, state, local_path, file,
                   result, results, out, faults, response, completed, fs0,
                   ops, pending, run, prev, cmp>>

\* The stream is exhausted: the loop ends and main goes on to line 123.
EndOfInput ==
    /\ mainpc = "parse" /\ stdin.pos > Len(stdin.lines)
    /\ mainpc' = "parsed"
    /\ UNCHANGED <<files, fs, pc, bytes_remote, bytes_local, state, local_path,
                   file, result, results, out, faults, response, completed,
                   fs0, ops, pending, run, prev, cmp, stdin>>

NextParse == NextGroup \/ EndOfInput

SpecParse == InitParse /\ [][NextParse]_vars

\* ---------------------------------------------------------------- claims
\* The files task i names: the one it probes with File::open and the one it
\* creates and writes.
dest(i) == FileOf(full(files[i].local_path).path)
Touches(i) == Named(files[i].local_path)
Isolated(i) == \A j \in Tasks \ {i} : Touches(i) \cap Touches(j) = {}
PairwiseDisjoint == \A i \in Tasks : Isolated(i)
Failed(r) == r.tag \in {"RequestError", "WithStatusError", "FileError"}

\* The filesystem calls task i has made: what it awaited after the request
\* and the body.
FsOps(i) == SubSeq(ops[i], 3, Len(ops[i]))

\* Every write task i handed to the blocking pool has run.
Settled(i) == pending[i] = NoWrite
Quiescent == \A i \in Tasks : Settled(i)

Colour(r) ==
    IF Failed(r) THEN "red"
    ELSE IF r = Ok("New") THEN "green"
    ELSE IF r = Ok("Update") THEN "blue"
    ELSE IF r = Ok("Same") THEN "plain"
    ELSE "none"

\* C1: whatever order the tasks return in, the collected list has one entry
\* per descriptor, entry i is what process(files[i]) returned, and report
\* line i names files[i].local_path with that outcome.
OrderPreserved ==
    mainpc \in {"report", "exit"} =>
        /\ Len(results) = Len(files)
        /\ \A i \in Tasks : results[i] = result[i] /\ result[i] # Pending
        /\ \A k \in 1..Len(out) :
              /\ out[k].path = files[k].local_path
              /\ out[k].colour = Colour(result[k])
              /\ result[k].tag = "WithStatusError" => out[k].detail = as_str(result[k].status)

\* The second task returned first, with a different outcome, and both lines
\* have been printed.
OrderPreservedWitness ==
    /\ mainpc = "exit"
    /\ Len(files) = 2 /\ files[1] # files[2]
    /\ completed = <<2, 1>>
    /\ result[1] = Ok("New") /\ result[2] = WithStatusError(404)
    /\ Len(out) = 2

\* What process(d) returns and leaves behind when it runs alone and without
\* failure on filesystem f0 and receives body b.
Alone(f0, d, b) ==
    LET lit == FileOf(d.local_path)
        res == FileOf(full(d.local_path).path)
        isNew == ~f0[lit].exists
        f1 == IF isNew /\ ~f0[res].exists THEN [f0 EXCEPT ![res] = Present(<<>>)] ELSE f0
        local == IF isNew THEN f1[res].data ELSE f0[lit].data
    IN  IF local = b
        THEN [result |-> Ok("Same"), fs |-> f1]
        ELSE [result |-> Ok(IF isNew THEN "New" ELSE "Update"),
              fs |-> [f1 EXCEPT ![res] = Present(b)]]

\* C2: with pairwise disjoint destinations and exactly one failure, at
\* whichever step, the run still yields one outcome per descriptor, exactly
\* one of them is Failed, and every other task has the outcome and leaves
\* the files it would have running alone.
IsolationUnderConcurrency ==
    (mainpc \in {"report", "exit"} /\ PairwiseDisjoint /\ faults = 1
          /\ Quiescent) =>
        /\ Len(results) = Len(files)
        /\ Cardinality({k \in Tasks : Failed(results[k])}) = 1
        /\ \A j \in Tasks :
              \/ Failed(results[j])
              \/ /\ results[j] = Alone(fs0, files[j], bytes_remote[j]).result
                 /\ \A p \in Touches(j) :
                        fs[p] = Alone(fs0, files[j], bytes_remote[j]).fs[p]

\* C10: no report line is printed before every task has returned, and a run
\* that returns from main has printed a line for every descriptor.
NoPartialReport ==
    /\ Len(out) > 0 => \A i \in Tasks : pc[i] = "done" /\ result[i] # Pending
    /\ mainpc = "exit" => Len(out) = Len(files)

\* The task that failed returned first; the report came after the other
\* one had returned and has a line for both.
NoPartialReportWitness ==
    /\ mainpc = "exit"
    /\ Len(files) = 2 /\ Len(out) = 2
    /\ Failed(result[1]) /\ ~Failed(result[2])
    /\ completed = <<1, 2>>

Is2xx(c) == c \in 200..299

\* C6: a fetch that completes with a non-2xx status c ends the task at once
\* with WithStatusError(c); the task makes no filesystem call, and the files
\* it names are as they were when the run started.
StatusFailure ==
    \A i \in Tasks :
        (response[i] # 0 /\ ~Is2xx(response[i])) =>
            /\ pc[i] = "done"
            /\ result[i] = WithStatusError(response[i])
            /\ result[i] # RequestError
            /\ FsOps(i) = <<>>
            /\ Isolated(i) => \A p \in Touches(i) : fs[p] = fs0[p]

\* A 404 for a descriptor whose file exists, reported.
StatusFailureWitness ==
    /\ mainpc = "exit"
    /\ \E i \in Tasks :
          /\ response[i] = 404
          /\ result[i] = WithStatusError(404)
          /\ full(files[i].local_path).ok
          /\ fs0[dest(i)].exists /\ fs[dest(i)] = fs0[dest(i)]
          /\ out[i].detail = "404"

Done(i) == pc[i] = "done"
Expands(i) == full(files[i].local_path).ok

\* C9: no failure inside process() leaves the task other than as an Err
\* value: the program never panics.
NoFaultEscapes == mainpc # "panicked"

\* C8: the existence probe and the write are on the same file, so a task
\* returns New only if its destination did not exist when the run started,
\* whatever the local_path string is.
CreatedOnlyIfAbsent ==
    \A i \in Tasks :
        (Done(i) /\ Expands(i) /\ Isolated(i) /\ result[i] = Ok("New")) =>
            ~fs0[dest(i)].exists

\* C4: a destination that does not exist, a non-empty body and no failure
\* give New, and the destination then holds exactly the remote bytes.
NewFilePath ==
    \A i \in Tasks :
        (Done(i) /\ Settled(i) /\ faults = 0 /\ Expands(i) /\ Isolated(i)
               /\ ~fs0[dest(i)].exists /\ bytes_remote[i] # <<>>) =>
            /\ result[i] = Ok("New")
            /\ fs[dest(i)] = Present(bytes_remote[i])

\* C5: a destination that exists with content other than the body, and no
\* failure, give Update, and the destination then holds exactly the body.
UpdatePath ==
    \A i \in Tasks :
        (Done(i) /\ Settled(i) /\ faults = 0 /\ Expands(i) /\ Isolated(i)
               /\ fs0[dest(i)].exists /\ fs0[dest(i)].data # bytes_remote[i]) =>
            /\ result[i] = Ok("Update")
            /\ fs[dest(i)] = Present(bytes_remote[i])

\* C3: a second run that fetches the same bytes as a first, successful run
\* returns Same and neither truncates nor writes.
Idempotence ==
    \A i \in Tasks :
        (run > 1 /\ Done(i) /\ faults = 0 /\ prev[i].result.tag = "Ok"
               /\ bytes_remote[i] = prev[i].bytes) =>
            /\ result[i] = Ok("Same")
            /\ \A k \in 1..Len(ops[i]) : ops[i][k] \notin {"create", "write"}

EveryTaskTerminates ==
    <>(mainpc = "exit" /\ \A i \in Tasks : Done(i) /\ result[i] # Pending)

\* C12: hash_eq returns true exactly when its two buffers are equal, the
\* empty buffer included; it returns the same with the arguments exchanged;
\* and the second digest is that of the second buffer alone.
ComparatorCorrect ==
    cmp.called =>
        /\ cmp.ret = (cmp.buf1 = cmp.buf2)
        /\ cmp.ret = hash_eq(cmp.buf2, cmp.buf1)
        /\ result_reset(input(result_reset(input(<<>>, cmp.buf1)).hasher, cmp.buf2)).hash
              = Digest(cmp.buf2)

\* Two equal buffers that are not empty were found equal.
ComparatorWitness ==
    /\ cmp.called /\ cmp.ret
    /\ cmp.buf1 = cmp.buf2 /\ Len(cmp.buf1) = MaxBuf

\* C13: a task returns New or Update only when all the remote bytes have
\* been written: once its writes have run, the destination holds exactly
\* the remote bytes; a write that failed shows as a FileError instead.
WriteFailuresReported ==
    \A i \in Tasks :
        (Done(i) /\ Settled(i) /\ Isolated(i)
               /\ result[i] \in {Ok("New"), Ok("Update")}) =>
            fs[dest(i)] = Present(bytes_remote[i])

\* The open for reading failed with NotFound / with another error.
NotFound(i) == FsOps(i) # <<>> /\ FsOps(i)[1] = "open_notfound"
OpenError(i) == FsOps(i) # <<>> /\ FsOps(i)[1] = "open_error"
HasRead(i) == pc[i] \in {"create", "write"} \/ (Done(i) /\ result[i].tag = "Ok")

\* C14: an open for reading that fails otherwise than with NotFound ends
\* the task with FileError before anything else is done: no file is created,
\* nothing is read, compared or written. NotFound is not an error: the task
\* goes on to create the destination and reads it back as empty.
OpenFailure ==
    \A i \in Tasks :
        /\ OpenError(i) =>
              /\ Done(i) /\ result[i] = FileError
              /\ FsOps(i) = <<"open_error">>
              /\ bytes_local[i] = <<>> /\ Settled(i)
              /\ Isolated(i) => \A p \in Touches(i) : fs[p] = fs0[p]
        /\ NotFound(i) =>
              /\ Len(FsOps(i)) >= 2 => FsOps(i)[2] = "open_create"
              /\ (Done(i) /\ faults = 0) => ~Failed(result[i])
              /\ (HasRead(i) /\ Isolated(i)) =>
                    ~fs0[dest(i)].exists /\ bytes_local[i] = <<>>

\* C15: a destination that does not exist and an empty remote body, without
\* failure, give Same and not New, and afterwards the destination exists
\* and is empty.
EmptyRemoteNewFile ==
    \A i \in Tasks :
        (Done(i) /\ Settled(i) /\ faults = 0 /\ Expands(i) /\ Isolated(i)
               /\ ~fs0[dest(i)].exists /\ bytes_remote[i] = <<>>) =>
            /\ result[i] = Ok("Same")
            /\ fs[dest(i)] = Present(<<>>)

IsPrefix(s, t) == Len(s) <= Len(t) /\ s = SubSeq(t, 1, Len(s))

\* What one pass awaits, in order, when the file is there and when it is not.
PassExisting == <<"get", "bytes", "open", "read", "create", "write">>
PassNew == <<"get", "bytes", "open_notfound", "open_create", "read", "create", "write">>
PassOpenError == <<"get", "bytes", "open_error">>

Last(s) == s[Len(s)]

\* The await a task is suspended at, given what it has awaited so far.
At(done) ==
    CASE done = <<>> -> "get"
      [] Last(done) = "get" -> "bytes"
      [] Last(done) = "bytes" -> "open"
      [] Last(done) = "open_notfound" -> "open_new"
      [] Last(done) \in {"open", "open_create"} -> "read"
      [] Last(done) = "read" -> "create"
      [] Last(done) = "create" -> "write"
      [] OTHER -> "done"

\* C16: what a task has awaited is an initial part of one pass: request,
\* body, open, read, create, write, each once and in that order; it is
\* suspended at the await that follows or has returned; it returns at the
\* step that fails; it creates and writes only after the comparison found
\* the buffers different; and an outcome, once there, is that of its last
\* step: nothing is awaited after it.
SinglePass ==
    \A i \in Tasks :
        /\ \/ IsPrefix(ops[i], PassExisting)
           \/ IsPrefix(ops[i], PassNew)
           \/ ops[i] = PassOpenError
        /\ pc[i] \in {At(ops[i]), "done", "panicked"}
        /\ pc[i] \in {"create", "write"} => bytes_local[i] # bytes_remote[i]
        /\ Failed(result[i]) => Done(i)
        /\ Done(i) => result[i] # Pending
        /\ result[i] \in {Ok("New"), Ok("Update")} =>
              Last(ops[i]) = "write" /\ bytes_local[i] # bytes_remote[i]
        /\ result[i] = Ok("Same") =>
              Last(ops[i]) = "read" /\ bytes_local[i] = bytes_remote[i]
        /\ result[i] = WithStatusError(response[i]) => ops[i] = <<"get">>
        /\ result[i] = RequestError => ops[i] \in {<<"get">>, <<"get", "bytes">>}
        /\ result[i] = FileError => Len(ops[i]) >= 3

\* One task went all the way to New; the other failed in its read and made
\* no call after it.
SinglePassWitness ==
    /\ mainpc = "exit" /\ Len(files) = 2 /\ Quiescent
    /\ result[1] = Ok("New") /\ ops[1] = PassNew
    /\ result[2] = FileError /\ ops[2] = <<"get", "bytes", "open", "read">>

Fetching(i) == pc[i] \in {"get", "bytes"}

\* C17: a task makes a filesystem call only after a 2xx status and the
\* whole body; a request that cannot be completed, or a body that cannot be
\* read after a 2xx status, ends it with RequestError, no filesystem call
\* made and the files it names as they were.
TransportFailure ==
    \A i \in Tasks :
        /\ (FsOps(i) # <<>> \/ pc[i] \in {"open", "open_new", "read", "create", "write"}) =>
              /\ Is2xx(response[i])
              /\ SubSeq(ops[i], 1, 2) = <<"get", "bytes">>
              /\ result[i].tag \notin {"RequestError", "WithStatusError"}
        /\ (Done(i) /\ FsOps(i) = <<>>) =>
              \/ result[i] = RequestError
              \/ result[i] = WithStatusError(response[i]) /\ ~Is2xx(response[i])
        /\ result[i] = RequestError =>
              /\ Done(i) /\ FsOps(i) = <<>> /\ Settled(i)
              /\ Last(ops[i]) = "bytes" => Is2xx(response[i])
              /\ Isolated(i) => \A p \in Touches(i) : fs[p] = fs0[p]

\* The body could not be read after a 2xx status: RequestError, reported,
\* and the existing destination as it was.
TransportFailureWitness ==
    /\ mainpc = "exit"
    /\ \E i \in Tasks :
          /\ result[i] = RequestError /\ ops[i] = <<"get", "bytes">>
          /\ Is2xx(response[i])
          /\ Expands(i) /\ fs0[dest(i)].exists /\ fs[dest(i)] = fs0[dest(i)]
          /\ out[i].detail = "Can't get data from url"

NonBlank(ls) == SelectSeq(ls, LAMBDA l : l # "")

\* Groups of exactly two non-blank lines, one or more blank lines between
\* one group and the next.
WellFormed(ls) ==
    /\ \A k \in 1..Len(ls) :
          ls[k] # "" =>
              \/ /\ k < Len(ls) /\ ls[k + 1] # ""
                 /\ k = 1 \/ ls[k - 1] = ""
                 /\ k + 2 > Len(ls) \/ ls[k + 2] = ""
              \/ /\ k > 1 /\ ls[k - 1] # ""
                 /\ k = 2 \/ ls[k - 2] = ""
                 /\ k = Len(ls) \/ ls[k + 1] = ""
    /\ ls # <<>> => ls[1] # "" /\ ls[Len(ls)] # ""

\* One descriptor per pair of non-blank lines, in stream order.
Expected(ls) ==
    [g \in 1..(Len(NonBlank(ls)) \div 2) |->
        [remote_url |-> NonBlank(ls)[2 * g - 1], local_path |-> NonBlank(ls)[2 * g]]]

\* C18: on a stream of groups of two non-blank lines with one or more blank
\* lines between them, main never panics while it reads the descriptors,
\* and what it has built when the stream ends is one descriptor per group,
\* in order, remote_url the first line and local_path the second.
GroupingNeverAborts ==
    WellFormed(stdin.lines) =>
        /\ mainpc # "panicked"
        /\ IsPrefix(files, Expected(stdin.lines))
        /\ mainpc = "parsed" => files = Expected(stdin.lines)

\* C19: when a task has returned New, Update or Same and its writes have
\* run, nobody else having touched its files, its destination exists and
\* holds exactly the bytes the task fetched.
SuccessPostcondition ==
    \A i \in Tasks :
        (Done(i) /\ Settled(i) /\ Isolated(i) /\ result[i].tag = "Ok") =>
            fs[dest(i)] = Present(bytes_remote[i])

RECURSIVE Sequential(_, _, _)
\* The outcomes and the filesystem when the descriptors fl are processed one
\* after another, in order, on filesystem f, descriptor k receiving body bs[k].
Sequential(f, fl, bs) ==
    IF fl = <<>> THEN [results |-> <<>>, fs |-> f]
    ELSE LET first == Alone(f, Head(fl), Head(bs))
             rest == Sequential(first.fs, Tail(fl), Tail(bs))
         IN  [results |-> <<first.result>> \o rest.results, fs |-> rest.fs]

DistinctDestinations ==
    \A i, j \in Tasks : (Expands(i) /\ Expands(j) /\ dest(i) = dest(j)) => i = j

\* C20: with pairwise distinct destinations and no failure, whatever the
\* interleaving, the outcomes and the final filesystem are those of
\* processing the descriptors one after another in input order; and a file
\* changes only if it is some task's destination.
InterleavingIndependence ==
    /\ (mainpc = "exit" /\ Quiescent /\ faults = 0 /\ DistinctDestinations) =>
          /\ results = Sequential(fs0, files, bytes_remote).results
          /\ fs = Sequential(fs0, files, bytes_remote).fs
    /\ \A p \in FsPaths :
          fs[p] # fs0[p] => \E i \in Tasks : Expands(i) /\ p = dest(i)

====
